---- MODULE Spec2Model ----
(***************************************************************************)
(* aiohttp_session_ws: a registry of websocket responses keyed by the      *)
(* "session ws id" stored in the HTTP session, the session_ws binding that *)
(* registers / unregisters one websocket around the application logic,     *)
(* and the three bulk closes (close_all at shutdown, close_all_session,    *)
(* and the close deferred until request.task has finished).                *)
(*                                                                         *)
(* asyncio is single threaded: a coroutine runs undisturbed between two    *)
(* awaits, so every action below is the code between two suspension        *)
(* points of one task.                                                     *)
(***************************************************************************)
EXTENDS Integers, FiniteSets, Sequences, TLC

\* ---------------------------------------------------------------- bounds
\* websocket requests (each builds one WebSocketResponse, its handle)
MaxWs == 2
\* identities the id factory or a session cookie can hold
MaxId == 2
\* plain HTTP requests (handlers that may schedule a deferred close)
MaxReq == 1
\* ensure_id calls observed on one session
MaxCalls == 3

\* session.get(self.session_key) of a session without the key
None == 0
\* the bulk close started by setup's on_shutdown hook
ShutdownOp == 0

Ids == 1..MaxId
IdsOrNone == Ids \cup {None}
Handles == 1..MaxWs
WsReqs == Handles
PlainReqs == (MaxWs + 1)..(MaxWs + MaxReq)
Reqs == WsReqs \cup PlainReqs
Ops == PlainReqs \cup {ShutdownOp}

VARIABLES
    registry,     \* SessionWSRegistry._registry: identity -> set of handles
    session,      \* per request: the value under session_key (None: absent)
    changed,      \* per websocket request: Session._changed
    pc,           \* per websocket request: where its session_ws binding is
    wsid,         \* per binding: session_ws.session_ws_id
    unregCalls,   \* per binding: unregister calls made by __aexit__
    task,         \* per plain request: state of request.task
    forceClose,   \* per plain request: response.force_close() calls
    id_,          \* per plain request: the closure variable id_ of onclose
    opc,          \* per bulk close: where it is
    closeCalls,   \* per bulk close: invocations of close_all_session / close_all
    coros,        \* per bulk close: handle -> wsr.close() coroutines created
    fin,          \* per bulk close: handles whose close() has completed
    exc,          \* per bulk close: handles whose close() raised
    lastRaised,   \* the last direct register/unregister call raised KeyError
    lastCall,     \* the last direct call of a registry method, its arguments
    lastCloses,   \* handles the last direct close_all_session asked to close
    ensured,      \* the request whose ensure_id calls are observed (at most one)
    ensureCalls,  \* ensure_id calls made on it
    ensureMints,  \* id_factory invocations made by those calls
    startId,      \* identity its session held before the first call
    firstId,      \* identity its session held after the first call
    mw            \* the request observed going through session_ws_middleware

vars == <<registry, session, changed, pc, wsid, unregCalls,
          task, forceClose, id_, opc, closeCalls, coros, fin, exc,
          lastRaised, lastCall, lastCloses,
          ensured, ensureCalls, ensureMints, startId, firstId, mw>>

bindingVars == <<pc, wsid, unregCalls>>
deferVars == <<task, forceClose, id_>>
opVars == <<opc, closeCalls, coros, fin, exc>>
callVars == <<lastRaised, lastCall, lastCloses>>
ensureVars == <<ensured, ensureCalls, ensureMints, startId, firstId>>

\* ------------------------------------------------------------- registry
\* collections.abc.Mapping.get over __getitem__
Get(reg, key, default) == IF key \in DOMAIN reg THEN reg[key] ELSE default

\* every handle held by the registry: set().union(*self.values())
Values(reg) == UNION {reg[k] : k \in DOMAIN reg}

\* variant: setdefault is given one set object shared by every identity
register_shared_set(reg, session_ws_id, wsr) ==
    [k \in DOMAIN reg \cup {session_ws_id} |-> Values(reg) \cup {wsr}]

\* the set toggles the handle (^=) instead of adding it
register_toggles(reg, session_ws_id, wsr) ==
    LET wsrs == Get(reg, session_ws_id, {})
    IN  [k \in DOMAIN reg \cup {session_ws_id} |->
            IF k = session_ws_id
            THEN (wsrs \ {wsr}) \cup ({wsr} \ wsrs)
            ELSE reg[k]]

register(reg, session_ws_id, wsr) ==
    LET wsrs == Get(reg, session_ws_id, {})
    IN  [k \in DOMAIN reg \cup {session_ws_id} |->
            IF k = session_ws_id THEN wsrs \cup {wsr} ELSE reg[k]]

\* without the early return of lines 189-190: the lookup of an unknown
\* identity raises KeyError
unregister_raises_absent(reg, session_ws_id, wsr) ==
    \/ session_ws_id \notin DOMAIN reg
    \/ wsr \notin reg[session_ws_id]

\* set.remove(wsr) of an element that is not in the set: KeyError
unregister_raises(reg, session_ws_id, wsr) ==
    /\ session_ws_id \in DOMAIN reg
    /\ reg[session_ws_id] # {wsr}
    /\ wsr \notin reg[session_ws_id]

\* variant: the whole entry of the identity is deleted
unregister_drops_identity(reg, session_ws_id, wsr) ==
    [k \in DOMAIN reg \ {session_ws_id} |-> reg[k]]

\* variant: the key is kept when its last handle goes
unregister_never_deletes(reg, session_ws_id, wsr) ==
    IF session_ws_id \notin DOMAIN reg
    THEN reg
    ELSE [reg EXCEPT ![session_ws_id] = @ \ {wsr}]

unregister(reg, session_ws_id, wsr) ==
    IF session_ws_id \notin DOMAIN reg
    THEN reg
    ELSE IF reg[session_ws_id] = {wsr}
         THEN [k \in DOMAIN reg \ {session_ws_id} |-> reg[k]]
         ELSE [reg EXCEPT ![session_ws_id] = @ \ {wsr}]

\* ------------------------------------------------------ session identity
get_id(sess, request) == sess[request]

\* session[self.session_key] = await self.generate_id(request)
new_id(sess, request, generated) == [sess EXCEPT ![request] = generated]

\* session.pop(self.session_key, None)
delete_id(sess, request) == [sess EXCEPT ![request] = None]

\* variant: ensure_id returns without looking at the session
ensure_id_skipped(sess, request, generated) ==
    [session |-> sess, factory |-> 0]

\* variant: new_id is called without looking at the session
ensure_id_always_mints(sess, request, generated) ==
    [session |-> new_id(sess, request, generated), factory |-> 1]

\* the session after the call and the number of id_factory invocations made
ensure_id(sess, request, generated) ==
    IF get_id(sess, request) = None
    THEN [session |-> new_id(sess, request, generated), factory |-> 1]
    ELSE [session |-> sess, factory |-> 0]

\* ------------------------------------------------------------ bulk close
\* [wsr.close() for wsr in wsrs]: one coroutine per handle of the set
CloseCoros(wsrs) == [h \in Handles |-> IF h \in wsrs THEN 1 ELSE 0]

\* variant: the closes are built from every identity's set
close_all_session_everyone(reg, session_ws_id) ==
    [registry |-> reg, coros |-> CloseCoros(Values(reg))]

\* the synchronous part of close_all_session, up to the await of gather:
\* the registry it leaves and the close coroutines it has created
close_all_session(reg, session_ws_id) ==
    [registry |-> reg, coros |-> CloseCoros(Get(reg, session_ws_id, {}))]

\* variant: the closes are built from one identity's set only
close_all_first_identity(reg) ==
    [registry |-> reg,
     coros |-> CloseCoros(IF DOMAIN reg = {} THEN {}
                          ELSE reg[CHOOSE k \in DOMAIN reg :
                                      \A j \in DOMAIN reg : k <= j])]

\* the synchronous part of close_all, up to the await of gather
close_all(reg) == [registry |-> reg, coros |-> CloseCoros(Values(reg))]

Requested(o) == {h \in Handles : coros[o][h] > 0}

\* variant: the closes are started one by one from the sets as they are
\* then, so that a handle unregistered in the meantime is passed over
OutstandingStillRegistered(o) ==
    (Requested(o) \cap Values(registry)) \ fin[o]

\* variant: the set of the identity is read again while the closes run
OutstandingLive(o) ==
    (Requested(o) \cup Get(registry, IF o = ShutdownOp THEN None ELSE id_[o], {}))
        \ fin[o]

\* the closes asyncio.gather is still waiting for
Outstanding(o) == Requested(o) \ fin[o]

\* a websocket some bulk close has closed
Closed(h) == \E o \in Ops : h \in fin[o] \ exc[o]

Registered(h) == \E k \in DOMAIN registry : h \in registry[k]

\* ------------------------------------------------------- deferred close
\* variant: onclose goes on without the task being done
onclose_never_waits(t) == TRUE

\* "await request.task" lets onclose go on once the task is done
onclose_resumes(t) == t # "pending"

\* awaiting a task that raised or was cancelled raises in the awaiter
onclose_raises(t) == t \in {"error", "cancelled"}

\* variant: the identity is read from the session when onclose runs
onclose_id_current(d) == get_id(session, d)

\* the identity onclose hands to close_all_session: the closure's id_
onclose_id(d) == id_[d]

\* ----------------------------------------------------------------- Init
\* everything but Session._changed
InitRest ==
    /\ registry = [k \in {} |-> {}]
    /\ session \in [Reqs -> IdsOrNone]
    /\ pc = [h \in Handles |-> "new"]
    /\ wsid = [h \in Handles |-> None]
    /\ unregCalls = [h \in Handles |-> 0]
    /\ task = [d \in PlainReqs |-> "pending"]
    /\ forceClose = [d \in PlainReqs |-> 0]
    /\ id_ = [d \in PlainReqs |-> None]
    /\ opc = [o \in Ops |-> "idle"]
    /\ closeCalls = [o \in Ops |-> 0]
    /\ coros = [o \in Ops |-> CloseCoros({})]
    /\ fin = [o \in Ops |-> {}]
    /\ exc = [o \in Ops |-> {}]
    /\ lastRaised = FALSE
    /\ lastCall = [op |-> "none", id |-> None, wsr |-> None, again |-> FALSE]
    /\ lastCloses = {}
    /\ ensured = {}
    /\ ensureCalls = 0
    /\ ensureMints = 0
    /\ startId = None
    /\ firstId = None
    /\ mw = [req |-> None, pc |-> "idle", ensures |-> 0, seen |-> None,
             handler_resp |-> "none", resp |-> "none"]

\* the requests arrive with the session their cookie holds, unmodified
Init ==
    /\ changed = [h \in WsReqs |-> FALSE]
    /\ InitRest

\* -------------------------------------------------- session_ws binding
\* variant: the session is never saved by the binding
save_never(session_changed) == FALSE

\* "if session._changed:" (line 239)
save_needed(session_changed) == session_changed

\* __aenter__ from its start to its first suspension: the await of
\* storage.save_session when the session has changed (line 240), of
\* response.prepare (line 245) otherwise.  Session.__setitem__ sets _changed.
AEnter(h) ==
    /\ pc[h] = "new"
    /\ \E generated \in Ids :
        LET minted == get_id(session, h) = None
            sess1 == IF minted THEN new_id(session, h, generated) ELSE session
            sid == get_id(sess1, h)
            chg == changed[h] \/ minted
        IN  /\ session' = sess1
            /\ changed' = [changed EXCEPT ![h] = chg]
            /\ wsid' = [wsid EXCEPT ![h] = sid]
            /\ IF save_needed(chg)
               THEN /\ pc' = [pc EXCEPT ![h] = "saving"]
                    /\ UNCHANGED registry
               ELSE /\ pc' = [pc EXCEPT ![h] = "handshake"]
                    /\ registry' = register(registry, sid, h)
    /\ UNCHANGED <<unregCalls, deferVars, opVars, callVars, ensureVars, mw>>

\* storage.save_session has written the session onto the handshake response:
\* __aenter__ goes on to the await of response.prepare
AEnterSaved(h) ==
    /\ pc[h] = "saving"
    /\ registry' = register(registry, wsid[h], h)
    /\ pc' = [pc EXCEPT ![h] = "handshake"]
    /\ UNCHANGED <<session, changed, wsid, unregCalls,
                   deferVars, opVars, callVars, ensureVars, mw>>

\* the session store raises, or the task is cancelled, before register
AEnterAbort(h) ==
    /\ pc[h] \in {"new", "saving"}
    /\ pc' = [pc EXCEPT ![h] = "failed"]
    /\ UNCHANGED <<registry, session, changed, wsid, unregCalls,
                   deferVars, opVars, callVars, ensureVars, mw>>

\* response.prepare returns: __aenter__ hands the handle to the body
PrepareOk(h) ==
    /\ pc[h] = "handshake"
    /\ pc' = [pc EXCEPT ![h] = "open"]
    /\ UNCHANGED <<registry, session, changed, wsid, unregCalls,
                   deferVars, opVars, callVars, ensureVars, mw>>

\* response.prepare raises (or the task is cancelled while it is awaited):
\* __aenter__ raises, and "async with" does not call __aexit__
PrepareRaise(h) ==
    /\ pc[h] = "handshake"
    /\ pc' = [pc EXCEPT ![h] = "failed"]
    /\ UNCHANGED <<registry, session, changed, wsid, unregCalls,
                   deferVars, opVars, callVars, ensureVars, mw>>

\* variant: unregister only when the body returned normally
aexit_only_on_return(exc_type) == exc_type = "return"

\* __aexit__ unregisters whatever exc_type it is given
aexit_unregisters(exc_type) == TRUE

\* variant: __aexit__ reads the identity from the session again
aexit_id_current(h) == get_id(session, h)

\* the identity __aexit__ unregisters under: self.session_ws_id (line 250)
aexit_id(h) == wsid[h]

\* the body of "async with" ends (return, raise, CancelledError): __aexit__
AExit(h, kind) ==
    /\ pc[h] = "open"
    /\ IF aexit_unregisters(kind)
       THEN /\ registry' = unregister(registry, aexit_id(h), h)
            /\ unregCalls' = [unregCalls EXCEPT ![h] = @ + 1]
       ELSE UNCHANGED <<registry, unregCalls>>
    /\ pc' = [pc EXCEPT ![h] = "exited"]
    /\ UNCHANGED <<session, changed, wsid, deferVars, opVars, callVars, ensureVars, mw>>

\* ------------------------------------------- handlers changing the identity
\* the handler of request r is running: the body of its binding, or the
\* handler of a plain request, whose request.task has not finished
HandlerRunning(r) ==
    IF r \in WsReqs THEN pc[r] = "open" ELSE task[r] = "pending"

NewIdCall(r) ==
    /\ HandlerRunning(r)
    /\ \E generated \in Ids : session' = new_id(session, r, generated)
    /\ changed' = [h \in WsReqs |-> changed[h] \/ h = r]
    /\ UNCHANGED <<registry, bindingVars, deferVars, opVars, callVars, ensureVars, mw>>

\* Session.__delitem__ sets _changed; pop of a missing key deletes nothing
DeleteIdCall(r) ==
    /\ HandlerRunning(r)
    /\ session' = delete_id(session, r)
    /\ changed' = [h \in WsReqs |->
                      changed[h] \/ (h = r /\ get_id(session, r) # None)]
    /\ UNCHANGED <<registry, bindingVars, deferVars, opVars, callVars, ensureVars, mw>>

\* ------------------------------------------------------- deferred close
\* variant: the identity is popped from the session, as the docstring of
\* schedule_close_all_session says
schedule_removes_identity(sess, request) ==
    [session |-> delete_id(sess, request),
     id_ |-> get_id(sess, request),
     force_close |-> 1]

\* what schedule_close_all_session does before it returns: the session it
\* leaves, the identity onclose captures, the force_close calls it makes
schedule_close_all_session(sess, request) ==
    [session |-> sess,
     id_ |-> get_id(sess, request),
     force_close |-> 1]

\* schedule_close_all_session, whole: it does not wait for onclose
Schedule(d) ==
    /\ task[d] = "pending"
    /\ opc[d] = "idle"
    /\ LET res == schedule_close_all_session(session, d)
       IN  /\ session' = res.session
           /\ id_' = [id_ EXCEPT ![d] = res.id_]
           /\ forceClose' = [forceClose EXCEPT ![d] = @ + res.force_close]
    /\ opc' = [opc EXCEPT ![d] = "waiting"]
    /\ UNCHANGED <<registry, changed, bindingVars, task, closeCalls, coros,
                   fin, exc, callVars, ensureVars, mw>>

\* request.task ends: the response was sent, or the task raised / was cancelled
TaskFinish(d, outcome) ==
    /\ task[d] = "pending"
    /\ task' = [task EXCEPT ![d] = outcome]
    /\ UNCHANGED <<registry, session, changed, bindingVars, forceClose, id_, opVars,
                   callVars, ensureVars, mw>>

\* onclose after "await request.task", up to the await of gather
OnClose(d) ==
    /\ opc[d] = "waiting"
    /\ onclose_resumes(task[d])
    /\ IF onclose_raises(task[d])
       THEN /\ opc' = [opc EXCEPT ![d] = "raised"]
            /\ UNCHANGED <<registry, closeCalls, coros>>
       ELSE LET res == close_all_session(registry, onclose_id(d))
            IN  /\ registry' = res.registry
                /\ coros' = [coros EXCEPT ![d] = res.coros]
                /\ closeCalls' = [closeCalls EXCEPT ![d] = @ + 1]
                /\ opc' = [opc EXCEPT ![d] =
                              IF \A h \in Handles : res.coros[h] = 0
                              THEN "done" ELSE "closing"]
    /\ UNCHANGED <<session, changed, bindingVars, deferVars, fin, exc, callVars,
                   ensureVars, mw>>

\* ------------------------------------------------------------- shutdown
\* the on_shutdown hook of setup: close_all up to the await of gather
Shutdown ==
    /\ opc[ShutdownOp] = "idle"
    /\ LET res == close_all(registry)
       IN  /\ registry' = res.registry
           /\ coros' = [coros EXCEPT ![ShutdownOp] = res.coros]
           /\ closeCalls' = [closeCalls EXCEPT ![ShutdownOp] = @ + 1]
           /\ opc' = [opc EXCEPT ![ShutdownOp] =
                         IF \A h \in Handles : res.coros[h] = 0
                         THEN "done" ELSE "closing"]
    /\ UNCHANGED <<session, changed, bindingVars, deferVars, fin, exc, callVars,
                   ensureVars, mw>>

\* variant: the children stop once gather has raised
gather_abandons_children(op_state) == op_state = "closing"

\* asyncio.gather wraps every coroutine in a task of its own: a child runs
\* whether or not gather has already handed a sibling's exception to its
\* awaiter
gather_child_runs(op_state) == op_state \in {"closing", "close_raised"}

\* one wsr.close() of a bulk close completes
CloseStep(o, h) ==
    /\ gather_child_runs(opc[o])
    /\ h \in Outstanding(o)
    /\ fin' = [fin EXCEPT ![o] = @ \cup {h}]
    /\ UNCHANGED <<registry, session, changed, bindingVars, deferVars, opc,
                   closeCalls, coros, exc, callVars, ensureVars, mw>>

\* one wsr.close() of a bulk close raises: gather (return_exceptions is
\* False) hands the first exception to the awaiting close_all /
\* close_all_session, which has no handler for it
CloseRaise(o, h) ==
    /\ gather_child_runs(opc[o])
    /\ h \in Outstanding(o)
    /\ fin' = [fin EXCEPT ![o] = @ \cup {h}]
    /\ exc' = [exc EXCEPT ![o] = @ \cup {h}]
    /\ opc' = [opc EXCEPT ![o] = "close_raised"]
    /\ UNCHANGED <<registry, session, changed, bindingVars, deferVars,
                   closeCalls, coros, callVars, ensureVars, mw>>

\* asyncio.gather returns: every close of the bulk close has completed
GatherReturn(o) ==
    /\ opc[o] = "closing"
    /\ Outstanding(o) = {}
    /\ opc' = [opc EXCEPT ![o] = "done"]
    /\ UNCHANGED <<registry, session, changed, bindingVars, deferVars, closeCalls,
                   coros, fin, exc, callVars, ensureVars, mw>>

ExitKinds == {"return", "error", "cancel"}
TaskOutcomes == {"ok", "error", "cancelled"}

Next ==
    \/ \E h \in Handles : AEnter(h)
    \/ \E h \in Handles : AEnterSaved(h)
    \/ \E h \in Handles : AEnterAbort(h)
    \/ \E h \in Handles : PrepareOk(h)
    \/ \E h \in Handles : PrepareRaise(h)
    \/ \E h \in Handles, kind \in ExitKinds : AExit(h, kind)
    \/ \E r \in Reqs : NewIdCall(r)
    \/ \E r \in Reqs : DeleteIdCall(r)
    \/ \E d \in PlainReqs : Schedule(d)
    \/ \E d \in PlainReqs, outcome \in TaskOutcomes : TaskFinish(d, outcome)
    \/ \E d \in PlainReqs : OnClose(d)
    \/ Shutdown
    \/ \E o \in Ops, h \in Handles : CloseStep(o, h)
    \/ \E o \in Ops : GatherReturn(o)

Spec == Init /\ [][Next]_vars

\* the websocket requests alone, on sessions that code running earlier in
\* the request (a middleware, the handler before its "async with") may have
\* modified
InitHandshake ==
    /\ changed \in [WsReqs -> BOOLEAN]
    /\ InitRest
    /\ \A d \in PlainReqs : session[d] = None

NextHandshake ==
    \/ \E h \in Handles : AEnter(h)
    \/ \E h \in Handles : AEnterSaved(h)
    \/ \E h \in Handles : AEnterAbort(h)
    \/ \E h \in Handles : PrepareOk(h)
    \/ \E h \in Handles : PrepareRaise(h)
    \/ \E h \in Handles, kind \in ExitKinds : AExit(h, kind)
    \/ \E r \in WsReqs : NewIdCall(r)
    \/ \E r \in WsReqs : DeleteIdCall(r)

SpecHandshake == InitHandshake /\ [][NextHandshake]_vars

\* closes that may raise, under handlers that leave the identity of their
\* session alone
NextCloseFail ==
    \/ \E h \in Handles : AEnter(h)
    \/ \E h \in Handles : AEnterSaved(h)
    \/ \E h \in Handles : AEnterAbort(h)
    \/ \E h \in Handles : PrepareOk(h)
    \/ \E h \in Handles : PrepareRaise(h)
    \/ \E h \in Handles, kind \in ExitKinds : AExit(h, kind)
    \/ \E d \in PlainReqs : Schedule(d)
    \/ \E d \in PlainReqs, outcome \in TaskOutcomes : TaskFinish(d, outcome)
    \/ \E d \in PlainReqs : OnClose(d)
    \/ Shutdown
    \/ \E o \in Ops, h \in Handles : CloseStep(o, h)
    \/ \E o \in Ops, h \in Handles : CloseRaise(o, h)
    \/ \E o \in Ops : GatherReturn(o)

\* the event loop runs every task that is ready: a close that was started
\* ends, by returning or by raising
SpecCloseFail ==
    /\ Init
    /\ [][NextCloseFail]_vars
    /\ \A o \in Ops, h \in Handles :
           WF_vars(CloseStep(o, h) \/ CloseRaise(o, h))

\* the serving task of a connection that a bulk close has closed leaves its
\* binding: the receive loop of the body ends and __aexit__ runs
ServingLeaves(h) ==
    /\ Closed(h)
    /\ \E kind \in ExitKinds : AExit(h, kind)

\* the same program under a fair event loop: started closes end, gather and
\* onclose resume when they can, request tasks end, handshakes end one way
\* or the other, and serving tasks leave once their connection is closed
SpecServing ==
    /\ Init
    /\ [][NextCloseFail]_vars
    /\ \A o \in Ops, h \in Handles :
           WF_vars(CloseStep(o, h) \/ CloseRaise(o, h))
    /\ \A o \in Ops : WF_vars(GatherReturn(o))
    /\ \A d \in PlainReqs : WF_vars(OnClose(d))
    /\ \A d \in PlainReqs :
           WF_vars(\E outcome \in TaskOutcomes : TaskFinish(d, outcome))
    /\ \A h \in Handles : WF_vars(AEnterSaved(h) \/ AEnterAbort(h))
    /\ \A h \in Handles : WF_vars(PrepareOk(h) \/ PrepareRaise(h))
    /\ \A h \in Handles : WF_vars(ServingLeaves(h))

\* ------------------------------------- the registry called directly
\* a direct call and its arguments; again: the call before it was the same
Call(op, k, h) ==
    [op |-> op, id |-> k, wsr |-> h,
     again |-> (lastCall.op = op /\ lastCall.id = k /\ lastCall.wsr = h)]

RegisterCall(k, h) ==
    /\ registry' = register(registry, k, h)
    /\ lastRaised' = FALSE
    /\ lastCall' = Call("register", k, h)
    /\ lastCloses' = {}
    /\ UNCHANGED <<session, changed, bindingVars, deferVars, opVars, ensureVars, mw>>

UnregisterCall(k, h) ==
    /\ lastRaised' = unregister_raises(registry, k, h)
    /\ registry' = IF unregister_raises(registry, k, h)
                   THEN registry
                   ELSE unregister(registry, k, h)
    /\ lastCall' = Call("unregister", k, h)
    /\ lastCloses' = {}
    /\ UNCHANGED <<session, changed, bindingVars, deferVars, opVars, ensureVars, mw>>

\* close_all_session awaited to its end on handles that no binding holds:
\* their closes complete and trigger no unregistration
CloseAllSessionCall(k) ==
    LET res == close_all_session(registry, k)
    IN  /\ registry' = res.registry
        /\ lastCloses' = {h \in Handles : res.coros[h] > 0}
        /\ lastRaised' = FALSE
        /\ lastCall' = Call("close_all_session", k, None)
        /\ UNCHANGED <<session, changed, bindingVars, deferVars, opVars, ensureVars, mw>>

\* the registry's methods read no session
InitRegistry == Init /\ session = [r \in Reqs |-> None]

NextRegistry ==
    \/ \E k \in Ids, h \in Handles : RegisterCall(k, h)
    \/ \E k \in Ids, h \in Handles : UnregisterCall(k, h)
    \/ \E k \in Ids : CloseAllSessionCall(k)

SpecRegistry == InitRegistry /\ [][NextRegistry]_vars

\* ------------------------------------------ ensure_id called repeatedly
EnsureIdCall(r) ==
    /\ ensured \subseteq {r}
    /\ ensureCalls < MaxCalls
    /\ \E generated \in Ids :
        LET res == ensure_id(session, r, generated)
        IN  /\ session' = res.session
            /\ ensureMints' = ensureMints + res.factory
            /\ firstId' = IF ensureCalls = 0 THEN get_id(res.session, r) ELSE firstId
    /\ startId' = IF ensureCalls = 0 THEN get_id(session, r) ELSE startId
    /\ ensured' = {r}
    /\ ensureCalls' = ensureCalls + 1
    /\ changed' = [h \in WsReqs |->
                      changed[h] \/ (h = r /\ get_id(session, r) = None)]
    /\ UNCHANGED <<registry, bindingVars, deferVars, opVars, callVars, mw>>

NextEnsure == \E r \in Reqs : EnsureIdCall(r)

SpecEnsure == Init /\ [][NextEnsure]_vars

\* ------------------------------------------------ session_ws_middleware
\* what a handler may return
Responses == {"ok", "redirect"}

\* "return await handler(request)": the handler's response as it is
middleware_returns(response) == response

\* "await ensure_session_ws_id(request)" (line 77)
MwEnsure(r) ==
    /\ mw.pc = "idle"
    /\ \E generated \in Ids :
        LET res == ensure_id(session, r, generated)
        IN  /\ session' = res.session
            /\ changed' = [h \in WsReqs |->
                              changed[h] \/ (h = r /\ res.factory = 1)]
    /\ mw' = [mw EXCEPT !.req = r, !.pc = "ensured", !.ensures = @ + 1]
    /\ UNCHANGED <<registry, bindingVars, deferVars, opVars, callVars,
                   ensureVars>>

\* handler(request) is called (line 78) and reads the session's identity
MwHandler ==
    /\ mw.pc = "ensured"
    /\ mw' = [mw EXCEPT !.pc = "handling", !.seen = get_id(session, mw.req)]
    /\ UNCHANGED <<registry, session, changed, bindingVars, deferVars,
                   opVars, callVars, ensureVars>>

\* the handler replaces or removes the identity of its session
MwHandlerNewId ==
    /\ mw.pc = "handling"
    /\ \E generated \in Ids : session' = new_id(session, mw.req, generated)
    /\ changed' = [h \in WsReqs |-> changed[h] \/ h = mw.req]
    /\ UNCHANGED <<registry, bindingVars, deferVars, opVars, callVars,
                   ensureVars, mw>>

MwHandlerDeleteId ==
    /\ mw.pc = "handling"
    /\ session' = delete_id(session, mw.req)
    /\ changed' = [h \in WsReqs |->
                      changed[h] \/ (h = mw.req /\ get_id(session, h) # None)]
    /\ UNCHANGED <<registry, bindingVars, deferVars, opVars, callVars,
                   ensureVars, mw>>

\* the handler returns and the middleware returns
MwReturn(response) ==
    /\ mw.pc = "handling"
    /\ mw' = [mw EXCEPT !.pc = "returned", !.handler_resp = response,
                        !.resp = middleware_returns(response)]
    /\ UNCHANGED <<registry, session, changed, bindingVars, deferVars,
                   opVars, callVars, ensureVars>>

\* the handler raises: the middleware has no handler for it
MwRaise ==
    /\ mw.pc = "handling"
    /\ mw' = [mw EXCEPT !.pc = "raised"]
    /\ UNCHANGED <<registry, session, changed, bindingVars, deferVars,
                   opVars, callVars, ensureVars>>

NextMiddleware ==
    \/ \E r \in Reqs : MwEnsure(r)
    \/ MwHandler
    \/ MwHandlerNewId
    \/ MwHandlerDeleteId
    \/ \E response \in Responses : MwReturn(response)
    \/ MwRaise

SpecMiddleware == Init /\ [][NextMiddleware]_vars

\* =====================================================================
\* Properties
\* =====================================================================

\* C1: while the completion signal (request.task) of a scheduled deferred
\* close is still pending, the continuation has not invoked
\* close_all_session and has asked no handle to close.
C1_NoCloseBeforeSignal ==
    \A d \in PlainReqs :
        task[d] = "pending" =>
            /\ closeCalls[d] = 0
            /\ Requested(d) = {}
            /\ fin[d] = {}

\* a deferred close is scheduled for an identity that has a registered
\* handle, and the signal has not fired
C1_Witness ==
    \E d \in PlainReqs :
        /\ opc[d] = "waiting"
        /\ task[d] = "pending"
        /\ Get(registry, id_[d], {}) # {}

\* C2: once the continuation of a deferred close has got past its wait for
\* request.task, however that task ended, it has invoked close_all_session
\* exactly once.
C2_RedeemedExactlyOnce ==
    \A d \in PlainReqs :
        opc[d] \in {"closing", "done", "raised"} => closeCalls[d] = 1

\* C3: a binding whose entry completed has called unregister exactly once
\* when its body has ended, whatever the way it ended, and its handle is then
\* in no set of the registry; no unregister is called before.
C3_UnregisteredOnExit ==
    \A h \in Handles :
        /\ pc[h] = "exited" => (unregCalls[h] = 1 /\ ~Registered(h))
        /\ pc[h] # "exited" => unregCalls[h] = 0

\* a binding has exited while a sibling of the same identity stays registered
C3_Witness ==
    \E h, g \in Handles :
        /\ h # g
        /\ pc[h] = "exited"
        /\ pc[g] = "open"
        /\ wsid[g] = wsid[h]
        /\ Registered(g)

\* C4: the handle of a binding whose entry ended with an error is in no set
\* of the registry.
C4_FailedEntryNotRegistered ==
    \A h \in Handles : pc[h] = "failed" => ~Registered(h)

\* C5: no identity key of the registry maps to an empty set, after any
\* sequence of register and unregister calls.
C5_NoEmptySet ==
    \A k \in DOMAIN registry : registry[k] # {}

\* an unregister call ended in KeyError and left other handles registered
C5_Witness ==
    /\ lastRaised
    /\ DOMAIN registry # {}

\* C6: when close_all_session(id) is invoked it creates one close request for
\* each handle of id's set at that moment and for no other handle, and neither
\* the invocation nor the closes that follow change the registry or the set of
\* requests.
C6_ClosesExactlyTheSet ==
    [][\A d \in PlainReqs :
        /\ closeCalls'[d] # closeCalls[d] =>
              /\ \A h \in Handles :
                    coros'[d][h] = IF /\ id_[d] \in DOMAIN registry
                                      /\ h \in registry[id_[d]]
                                   THEN 1 ELSE 0
              /\ registry' = registry
        /\ (opc[d] = "closing" /\ (fin'[d] # fin[d] \/ opc'[d] # opc[d])) =>
              /\ registry' = registry
              /\ coros'[d] = coros[d]
              /\ fin'[d] \subseteq Requested(d)
      ]_vars

\* a bulk close of one identity is complete and a handle registered under
\* another identity was neither asked to close nor closed
C6_Witness ==
    \E d \in PlainReqs, h \in Handles :
        /\ opc[d] = "done"
        /\ Requested(d) # {}
        /\ Registered(h)
        /\ wsid[h] # id_[d]
        /\ h \notin Requested(d)
        /\ ~Closed(h)

\* C7: a handle that close_all_session did not find in the set when it was
\* invoked gets no close request and no close from that call, and the steps of
\* that call leave it registered.
C7_PointInTime ==
    [][\A d \in PlainReqs, h \in Handles :
        (opc[d] = "closing" /\ coros[d][h] = 0) =>
            /\ coros'[d][h] = 0
            /\ h \notin fin'[d]
            /\ ((fin'[d] # fin[d] \/ opc'[d] # opc[d]) /\ Registered(h))
                  => Registered(h)'
      ]_vars

\* closes of a bulk close are outstanding, and a handle registered under the
\* same identity after the call took its set is open and was not asked to close
C7_Witness ==
    \E d \in PlainReqs, h \in Handles :
        /\ opc[d] = "closing"
        /\ Outstanding(d) # {}
        /\ coros[d][h] = 0
        /\ pc[h] = "open"
        /\ id_[d] \in DOMAIN registry
        /\ h \in registry[id_[d]]
        /\ ~Closed(h)

\* C8: the shutdown hook calls close_all once, and that call creates exactly
\* one close request for every handle registered under any identity at that
\* moment.
C8_ShutdownClosesAll ==
    [][closeCalls'[ShutdownOp] # closeCalls[ShutdownOp] =>
          /\ closeCalls[ShutdownOp] = 0
          /\ closeCalls'[ShutdownOp] = 1
          /\ \A h \in Handles :
                coros'[ShutdownOp][h] =
                    IF \E k \in DOMAIN registry : h \in registry[k] THEN 1 ELSE 0
      ]_vars

\* shutdown has asked handles of two different identities to close
C8_Witness ==
    \E h, g \in Handles :
        /\ opc[ShutdownOp] \in {"closing", "done"}
        /\ wsid[h] # wsid[g]
        /\ coros[ShutdownOp][h] = 1
        /\ coros[ShutdownOp][g] = 1

\* C9: the deferred close keeps the identity the session held when
\* schedule_close_all_session was called, and the continuation asks exactly
\* the handles of that identity to close, whatever the session holds by then.
C9_ClosesScheduledIdentity ==
    [][\A d \in PlainReqs :
        /\ (opc[d] = "idle" /\ opc'[d] = "waiting") => id_'[d] = session[d]
        /\ opc[d] # "idle" => id_'[d] = id_[d]
        /\ closeCalls'[d] # closeCalls[d] =>
              Requested(d)' = Get(registry, id_[d], {})
      ]_vars

\* the session's identity was replaced after scheduling; the continuation has
\* asked the handles of the old identity to close and not a handle registered
\* under the new one
C9_Witness ==
    \E d \in PlainReqs, h \in Handles :
        /\ closeCalls[d] = 1
        /\ session[d] # None
        /\ session[d] # id_[d]
        /\ Requested(d) # {}
        /\ Registered(h)
        /\ wsid[h] = session[d]
        /\ h \notin Requested(d)

\* C10: after one or more ensure_id calls on a session, the id factory has
\* been invoked once if the session held no identity before the first call and
\* never if it held one, and the session holds the identity it held after the
\* first call (the one it started with, if any).
C10_EnsureMintsOnce ==
    ensureCalls >= 1 =>
        /\ ensureMints = IF startId = None THEN 1 ELSE 0
        /\ firstId # None
        /\ startId # None => firstId = startId
        /\ \A r \in ensured : get_id(session, r) = firstId

\* ensure_id was called more than once on a session that started without an
\* identity
C10_Witness ==
    /\ ensureCalls >= 2
    /\ startId = None
    /\ ensureMints = 1

\* C11: unregister(id, handle) and close_all_session(id) called with an
\* identity that is not a key of the registry raise nothing, ask no handle
\* to close and leave the registry as it was (no key is created).
C11_AbsentIdentityNoOp ==
    [][(/\ lastCall'.op \in {"unregister", "close_all_session"}
        /\ lastCall'.id \notin DOMAIN registry)
       => (/\ registry' = registry
           /\ ~lastRaised'
           /\ lastCloses' = {})]_vars

\* unregister was called with an unknown identity while another identity
\* has handles
C11_Witness ==
    /\ lastCall.op = "unregister"
    /\ lastCall.id \notin DOMAIN registry
    /\ ~lastRaised
    /\ DOMAIN registry # {}

\* C12: registering a pair a second time right after registering it leaves
\* the registry as the first call left it, with the handle in the
\* identity's set, and raises nothing.
C12_RegisterIdempotent ==
    [][(lastCall'.op = "register" /\ lastCall'.again)
       => (/\ registry' = registry
           /\ ~lastRaised'
           /\ lastCall'.wsr \in registry'[lastCall'.id])]_vars

\* the same pair was registered twice in a row and its set holds the handle
\* alone
C12_Witness ==
    /\ lastCall.op = "register"
    /\ lastCall.again
    /\ registry[lastCall.id] = {lastCall.wsr}

\* C13: a bulk close one of whose closes raised does not raise to its
\* caller (the shutdown hook, the deferred continuation).
C13_BulkCloseSurvivesFailure ==
    \A o \in Ops : exc[o] # {} => opc[o] # "close_raised"

\* C14: once a close of a bulk close has raised, every other handle of the
\* bulk close still has its close requested, and each of these closes ends.
C14_OthersStillClosed ==
    \A o \in Ops :
        [](exc[o] # {} =>
              /\ Requested(o) # {}
              /\ <>(fin[o] = Requested(o)))

\* a close raised while another close of the same bulk close was pending,
\* and that one has completed
C14_Witness ==
    \E o \in Ops :
        /\ exc[o] # {}
        /\ fin[o] \ exc[o] # {}
        /\ fin[o] = Requested(o)

\* C15: a binding whose session is modified when it reads it (it has just
\* minted the identity, or the session was modified before) saves the
\* session and only then starts the handshake; a binding whose session held
\* an identity and is not modified starts the handshake without a save.
C15_SavedBeforeHandshake ==
    [][\A h \in Handles :
          /\ (pc[h] = "new" /\ pc'[h] \in {"saving", "handshake"}) =>
                 (pc'[h] = "saving" <=> (changed[h] \/ session[h] = None))
          /\ (pc[h] # "handshake" /\ pc'[h] = "handshake") =>
                 (pc[h] = "saving" <=> changed'[h])]_vars

\* one handshake is being sent after a save, another one without a save
C15_Witness ==
    \E h1, h2 \in Handles :
        /\ pc[h1] = "handshake" /\ changed[h1]
        /\ pc[h2] = "handshake" /\ ~changed[h2]

C17_AtMostOneIdentity ==
    \A h \in Handles :
        Cardinality({k \in DOMAIN registry : h \in registry[k]}) <= 1

\* the session of an open binding has moved to another identity, under which
\* another handle is registered, while a bulk close is under way
C17_Witness ==
    \E h1, h2 \in Handles, o \in Ops :
        /\ pc[h1] = "open"
        /\ session[h1] # wsid[h1]
        /\ h1 \in Get(registry, wsid[h1], {})
        /\ h2 \in Get(registry, session[h1], {})
        /\ opc[o] = "closing"

\* C18: session_ws_middleware has called ensure_id exactly once, and the
\* call has returned, when it calls the handler; the handler then finds an
\* identity in its session; the middleware returns the handler's response
\* as it is.
C18_MiddlewareEnsuresFirst ==
    /\ mw.pc = "idle" => mw.ensures = 0
    /\ mw.pc # "idle" => mw.ensures = 1
    /\ mw.pc \in {"handling", "returned", "raised"} => mw.seen # None
    /\ mw.pc = "ensured" => get_id(session, mw.req) # None
    /\ mw.pc = "returned" => mw.resp = mw.handler_resp

\* a request has gone through the middleware: its handler saw an identity,
\* dropped it later, and its response came back
C18_Witness ==
    /\ mw.pc = "returned"
    /\ mw.seen # None
    /\ get_id(session, mw.req) = None
    /\ mw.resp = "redirect"

\* C19: while the body of a binding holds its handle (the handshake is done,
\* the binding has not exited), the handle is in the registry's set of the
\* identity the binding obtained, which is not None, and every close_all and
\* every close_all_session for that identity that starts then creates a
\* close for the handle.
C19_HeldHandleRegistered ==
    [][\A h \in Handles :
          pc[h] = "open" =>
              /\ wsid[h] # None
              /\ h \in Get(registry, wsid[h], {})
              /\ \A o \in Ops :
                    (/\ closeCalls'[o] # closeCalls[o]
                     /\ (o = ShutdownOp \/ onclose_id(o) = wsid[h]))
                    => h \in Requested(o)']_vars

\* a deferred close for the identity of an open binding has started and
\* has a close for its handle, after the binding's session moved on
C19_Witness ==
    \E h \in Handles, d \in PlainReqs :
        /\ pc[h] = "open"
        /\ session[h] # wsid[h]
        /\ opc[d] = "closing"
        /\ id_[d] = wsid[h]
        /\ h \in Requested(d)
        /\ h \notin fin[d]

\* C20: an unregister that runs while closes of a close_all or
\* close_all_session are outstanding, the one deleting the identity's key
\* included, does not end the bulk close and changes neither the closes it
\* has created nor those still outstanding; no handle gets two closes from
\* one bulk close, and a bulk close that has returned has closed every
\* handle it had created a close for.
C20_SafeUnderUnregister ==
    [][\A o \in Ops :
          /\ (/\ opc[o] = "closing"
              /\ \E h \in Handles : unregCalls'[h] # unregCalls[h])
             => (/\ opc'[o] = "closing"
                 /\ coros'[o] = coros[o]
                 /\ fin'[o] = fin[o]
                 /\ Outstanding(o)' = Outstanding(o))
          /\ \A h \in Handles : coros'[o][h] <= 1
          /\ opc'[o] = "done" => fin'[o] = Requested(o)']_vars

\* a binding has exited and its unregister has deleted the identity's key
\* while the close of its handle is outstanding in a bulk close
C20_Witness ==
    \E o \in Ops, h \in Handles :
        /\ opc[o] = "closing"
        /\ h \in Outstanding(o)
        /\ pc[h] = "exited"
        /\ wsid[h] \notin DOMAIN registry

\* C21: a close_all or close_all_session call has created every close before
\* any of them completes, and the call is over (it has returned, or raised to
\* its caller) in no state where one of its closes is still pending.
C21_FanOutFanIn ==
    \A o \in Ops :
        /\ fin[o] \subseteq Requested(o)
        /\ opc[o] \in {"done", "close_raised"} => Outstanding(o) = {}

\* C22: with serving tasks that leave their binding once their connection
\* has been closed, every handle a bulk close has closed is eventually in
\* no set of the registry.
C22_ClosedThenUnregistered ==
    \A h \in Handles : Closed(h) ~> ~Registered(h)

\* C23: a binding that exits after its session's identity was replaced or
\* deleted removes its handle from the set it was registered in: the handle
\* is then in no set, no set is left empty, and the other handles stay
\* where they were.
C23_UnregistersCapturedIdentity ==
    [][\A h \in Handles :
          (pc[h] = "open" /\ pc'[h] = "exited" /\ session[h] # wsid[h]) =>
              /\ \A k \in DOMAIN registry' :
                    h \notin registry'[k] /\ registry'[k] # {}
              /\ \A k \in DOMAIN registry :
                    Get(registry', k, {}) = registry[k] \ {h}]_vars

\* a binding has exited while its session held another identity, under
\* which another handle is still registered, and the set of the identity it
\* was registered under is gone
C23_Witness ==
    \E h1, h2 \in Handles :
        /\ pc[h1] = "exited"
        /\ session[h1] # wsid[h1]
        /\ h2 \in Get(registry, session[h1], {})
        /\ wsid[h1] \notin DOMAIN registry

\* C24: unregister(id, handle) of a pair that is not registered raises
\* nothing, also when id is a key of the registry with other handles.
C24_UnregisterNeverRaises ==
    (/\ lastCall.op = "unregister"
     /\ lastCall.id \in DOMAIN registry
     /\ lastCall.wsr \notin registry[lastCall.id])
    => ~lastRaised

====
